---------------------------- MODULE Spec2Model ----------------------------
(***************************************************************************)
(* A model of the HOS trip scheduler of api/services.py (TripService).     *)
(*                                                                         *)
(* Units.  The code computes with floats: miles and hours.  The model      *)
(* computes with exact integers in a unit that makes every quantity of the *)
(* code whole:                                                             *)
(*   - a distance is a number of units, UnitsPerMile units to the mile;    *)
(*   - a time is a number of ticks, one tick being the time it takes to    *)
(*     drive one unit at AVG_SPEED_MPH, so that `distance / AVG_SPEED_MPH` *)
(*     (hours) and `hours * AVG_SPEED_MPH` (miles) are the identity on the *)
(*     numbers and lose nothing, as in exact arithmetic.                   *)
(* UnitsPerMile is a multiple of 300: a hundredth of a mile (the epsilon   *)
(* of the main loop, the rounding of the distance provider) and a minute   *)
(* of driving (11/12 mile) are then whole numbers of units.                *)
(***************************************************************************)
EXTENDS Integers, Sequences, FiniteSets

\* ------------------------------------------------------------ bounds ----
\* Units per 1/300 mile: the resolution of distances and times.
Resolution == 1
\* Stored trip distances 0..MaxTinyUnits units (around the loop's epsilon).
MaxTinyUnits == 5
\* Stored trip distances k * GridMiles miles, k in 1..MaxGridSteps.
MaxGridSteps == 140
\* Runs of generate_route_instructions on the trip.
MaxRuns == 2
\* Longest list of route coordinates in a directions response.
MaxCoords == 4

\* --------------------------------------------- constants of TripService ----
AVG_SPEED_MPH == 55
FUEL_STOP_INTERVAL == 1000
FUEL_STOP_DURATION == 30
PICKUP_DROPOFF_DURATION == 60
MAX_DRIVE_HOURS_PER_DAY == 11
MAX_ON_DUTY_HOURS_PER_DAY == 14
MANDATORY_BREAK_DURATION == 30
MANDATORY_BREAK_THRESHOLD == 8
SLEEPER_BERTH_DURATION == 7
OFF_DUTY_DURATION == 3
DRIVER_WAKE_UP_TIME == 4
DRIVER_START_TIME == 6

\* ------------------------------------------------------------- units ----
UnitsPerMile == 300 * Resolution
TicksPerMinute == (UnitsPerMile * AVG_SPEED_MPH) \div 60
Minutes(m) == m * TicksPerMinute
Hours(h) == Minutes(60 * h)
Miles(m) == m * UnitsPerMile
MinutesPerDay == 24 * 60

Min(a, b) == IF a <= b THEN a ELSE b
Min4(a, b, c, d) == Min(Min(a, b), Min(c, d))


\* ------------------------------------------------- DistanceProvider ----
\* round(distance_km * 0.621371, 2) in hundredths of a mile, for a route
\* summary of `km` whole kilometres (62.1371 hundredths to the kilometre,
\* rounded to the nearest hundredth).
KmToHundredths(km) == km * 62 + (km * 1371 + 5000) \div 10000

\* What the directions request of get_distance_and_duration can answer.
ProviderKm == {0, 1, 161, 885, 1609, 3380}
ProviderResponses ==
    [kind : {"network_error", "bad_status", "bad_json", "no_features",
             "no_summary", "no_distance"}, km : {0}]
    \cup [kind : {"ok"}, km : ProviderKm]

\* get_distance_and_duration: (None, None) on every failure, else the
\* distance in miles rounded to two decimals (here: in units).
get_distance_and_duration(response) ==
    IF response.kind = "ok"
    THEN [ok |-> TRUE,
          distance |-> (KmToHundredths(response.km) * UnitsPerMile) \div 100]
    ELSE [ok |-> FALSE, distance |-> 0]

\* ------------------------------------------------- WaypointProvider ----
HaltTypes == {"ON_DUTY_NOT_DRIVING", "STOP", "DRIVE", "FUEL", "BREAK",
              "SLEEPER", "OFF_DUTY"}
WaypointHaltTypes == {"DRIVE", "FUEL", "BREAK", "SLEEPER"}

\* str.capitalize() of a halt type.
Capitalize(halt_type) ==
    CASE halt_type = "DRIVE" -> "Drive"
      [] halt_type = "FUEL" -> "Fuel"
      [] halt_type = "BREAK" -> "Break"
      [] halt_type = "SLEEPER" -> "Sleeper"
      [] halt_type = "STOP" -> "Stop"
      [] halt_type = "OFF_DUTY" -> "Off_duty"
      [] OTHER -> "On_duty_not_driving"

\* The route coordinates of a directions response: n points [lon, lat].
RouteCoordinates(n) == [i \in 1..n |-> <<i, 0 - i>>]

\* The directions responses: a failure, or a route of n coordinates whose
\* first named step is absent, a plain name, or "name, rest".
RouteResponses ==
    [kind : {"network_error", "bad_status", "bad_json", "no_features",
             "no_geometry"},
     ncoords : {0}, step_name : {"none"}]
    \cup [kind : {"bad_properties"}, ncoords : 0..MaxCoords,
          step_name : {"none"}]
    \cup [kind : {"ok"}, ncoords : 0..MaxCoords,
          step_name : {"none", "plain", "comma"}]

\* The values random.randint(1, len(coordinates) - 2) can return (the
\* range is empty below 3 coordinates: randint raises, and no value is used).
RandomIndexes(route) ==
    IF route.ncoords >= 3 THEN 1..(route.ncoords - 2) ELSE {1}

\* The reverse-geocode responses: a failure, or a feature's properties.
GeocodeResponses ==
    [kind : {"error", "no_features", "no_properties"}, has_name : {FALSE},
     has_label : {FALSE}, has_street : {FALSE}, has_locality : {FALSE}]
    \cup [kind : {"ok"}, has_name : BOOLEAN, has_label : BOOLEAN,
          has_street : BOOLEAN, has_locality : BOOLEAN]

\* Lines 126-163: the route request up to the chosen coordinate and the
\* name taken from the route's steps; exc is the exception class raised.
RouteLookup(route, random_index) ==
    LET failed(e) == [exc |-> e, coord |-> <<0, 0>>,
                      name |-> "", address |-> ""]
    IN  CASE route.kind \in {"network_error", "bad_status"} ->
                failed("RequestException")
          [] route.kind = "bad_json" -> failed("ValueError")
          [] route.kind = "no_features" -> failed("ValueError")
          [] route.kind = "no_geometry" -> failed("ValueError")
          [] route.ncoords < 2 -> failed("ValueError")
          [] random_index > route.ncoords - 2 -> failed("ValueError")
          [] route.kind = "bad_properties" -> failed("TypeError")
          [] OTHER ->
                [exc |-> "none",
                 coord |-> RouteCoordinates(route.ncoords)[random_index + 1],
                 name |-> CASE route.step_name = "plain" -> "StepName"
                            [] route.step_name = "comma" -> "StepHead"
                            [] OTHER -> "Unknown Location",
                 address |-> IF route.step_name = "comma"
                             THEN "StepTail" ELSE "Unknown"]

\* Lines 166-181: the reverse geocoding, whose every failure is swallowed.
ReverseGeocode(geo, name, address) ==
    IF geo.kind # "ok"
    THEN [name |-> name, address |-> address]
    ELSE [name |-> CASE geo.has_street -> "GeoStreet"
                     [] geo.has_locality -> "GeoLocality"
                     [] geo.has_name -> "GeoName"
                     [] OTHER -> name,
          address |-> IF geo.has_label THEN "GeoLabel" ELSE address]

\* Lines 199-205 and 208-214: the dummy location of both except clauses.
FallbackLocation(pickup_location, dropoff_location, halt_type) ==
    [name |-> IF halt_type # "STOP"
              THEN <<Capitalize(halt_type), " Stop: ", "Fallback Location">>
              ELSE <<"Fallback Location">>,
     address |-> "Unknown",
     latitude |-> (pickup_location.latitude + dropoff_location.latitude) \div 2,
     longitude |-> (pickup_location.longitude + dropoff_location.longitude) \div 2]

\* The exception classes the lookup raises; all but RequestException are
\* caught only by the second clause, `except Exception` (line 206).
ExceptionClasses == {"RequestException", "ValueError", "TypeError"}

CaughtByExcept_RequestOnly(exc) == exc = "RequestException"

\* The except clauses of lines 197 (requests.RequestException) and 206
\* (Exception): whether an exception of class exc is caught.
CaughtByExcept(exc) == exc = "RequestException" \/ exc \in ExceptionClasses

\* generate_random_current_location: the Location it creates, or raised.
\* answers = [route, random_index, geo]: what the two requests and
\* random.randint answer during the call.
generate_random_current_location(pickup_location, dropoff_location, halt_type, answers) ==
    LET looked == RouteLookup(answers.route, answers.random_index)
        named == ReverseGeocode(answers.geo, looked.name, looked.address)
    IN  IF looked.exc = "none"
        THEN [raised |-> FALSE,
              location |->
                [name |-> IF halt_type = "DRIVE" \/ halt_type = "STOP"
                          THEN <<named.name>>
                          ELSE <<Capitalize(halt_type), " Stop: ", named.name>>,
                 address |-> named.address,
                 latitude |-> looked.coord[2],
                 longitude |-> looked.coord[1]]]
        ELSE IF CaughtByExcept(looked.exc)
        THEN [raised |-> FALSE,
              location |-> FallbackLocation(pickup_location, dropoff_location,
                                            halt_type)]
        ELSE [raised |-> TRUE,
              location |-> FallbackLocation(pickup_location, dropoff_location,
                                            halt_type)]


\* The answers the providers can give during one call.
WaypointAnswers ==
    UNION {[route : {route}, random_index : RandomIndexes(route),
            geo : GeocodeResponses] : route \in RouteResponses}

\* ------------------------------------------------------------- state ----
VARIABLES
    \* the Trip row and its many-to-many collection
    trip_distance, trip_number_of_days, trip_route_instructions,
    pickup_location, dropoff_location,
    \* rows created in the RouteInstruction and Location tables
    route_instruction_rows, location_rows,
    \* generate_route_instructions: position and locals
    pc, distance, current_time, current_day, remaining_distance,
    total_driving_time_today, on_duty_window, distance_covered,
    route_instructions, has_taken_break, next_instruction,
    \* one call of generate_random_current_location, observed alone
    waypoint,
    \* history: runs started, the trip as each run found it, what the
    \* distance provider answered the run, the results of the completed runs
    runs, snapshot, provider_answer, completed,
    \* the rest of the Trip row, the other rows of the Trip table, and the
    \* ids of the Location rows with the names a request gives
    trip_id, trip_cycle_used, trips, location_ids,
    \* TripCreateAndGetAllView.post: the request being served and the
    \* response given to the last one
    request, http_response,
    \* the last call of get_number_of_days and what it returned
    estimated

vars == <<trip_distance, trip_number_of_days, trip_route_instructions,
          pickup_location, dropoff_location, route_instruction_rows,
          location_rows, pc, distance, current_time, current_day,
          remaining_distance, total_driving_time_today, on_duty_window,
          distance_covered, route_instructions, has_taken_break,
          next_instruction, waypoint, runs, snapshot, provider_answer,
          completed, trip_id, trip_cycle_used, trips, location_ids, request,
          http_response, estimated>>

trip_vars == <<trip_distance, trip_number_of_days, trip_route_instructions,
               pickup_location, dropoff_location>>
local_vars == <<distance, current_time, current_day, remaining_distance,
                total_driving_time_today, on_duty_window, distance_covered,
                route_instructions, has_taken_break, next_instruction>>
history_vars == <<runs, snapshot, provider_answer, completed>>
\* What no statement of generate_route_instructions or of
\* generate_random_current_location touches.
outer_vars == <<trip_id, trip_cycle_used, trips, location_ids, request,
                http_response, estimated>>

\* ------------------------------------------------------------ inputs ----
GridMiles == 25
\* The driving of the first on-duty window: 14 h less pre-trip, pickup
\* and the break.
FirstWindowDrive ==
    Hours(MAX_ON_DUTY_HOURS_PER_DAY)
    - Hours(DRIVER_START_TIME - DRIVER_WAKE_UP_TIME)
    - Minutes(PICKUP_DROPOFF_DURATION) - Minutes(MANDATORY_BREAK_DURATION)
\* Distances at the thresholds of the algorithm, one unit either side.
BoundaryDistances ==
    {b + e : b \in {Hours(MANDATORY_BREAK_THRESHOLD), FirstWindowDrive,
                    FirstWindowDrive + Hours(MANDATORY_BREAK_THRESHOLD),
                    FirstWindowDrive + Hours(MAX_DRIVE_HOURS_PER_DAY),
                    Miles(FUEL_STOP_INTERVAL), Miles(2 * FUEL_STOP_INTERVAL),
                    Miles(3 * FUEL_STOP_INTERVAL)},
             e \in {-1, 0, 1}}
\* The distances (units) a stored trip is given; 550 and 2100 miles are
\* the one-day and the multi-day example trips.
TripDistances ==
    (0..MaxTinyUnits) \cup {Miles(k * GridMiles) : k \in 1..MaxGridSteps}
    \cup BoundaryDistances \cup {Miles(550), Miles(2100)}

\* Location rows 1 and 2 are the trip's pickup and dropoff.
TripPickup == [id |-> 1, latitude |-> 40, longitude |-> -74]
TripDropoff == [id |-> 2, latitude |-> 34, longitude |-> -118]

\* The pickup and dropoff locations given to a call observed alone.
WaypointLocations == [id : {0}, latitude : {-4, 0, 6}, longitude : {-10, 2}]

\* No call of generate_random_current_location is being observed.
NoWaypoint ==
    [halt_type |-> "", called |-> FALSE, raised |-> FALSE,
     answers |-> [route |-> [kind |-> "ok", ncoords |-> 0, step_name |-> "none"],
                  random_index |-> 1,
                  geo |-> [kind |-> "error", has_name |-> FALSE,
                           has_label |-> FALSE, has_street |-> FALSE,
                           has_locality |-> FALSE]],
     location |-> FallbackLocation(TripPickup, TripPickup, "STOP")]

\* What a request's "pickup_location" and "dropoff_location" can be: absent,
\* or a dict with a name and coordinates.
LocationInputs == {"missing", "given"}

\* What a request's "cycle_used" can be: absent, a JSON number, a string of
\* digits (form data), or another non-empty string.
CycleUsedInputs ==
    {[kind |-> "missing", value |-> 0], [kind |-> "text", value |-> 0]}
    \cup [kind : {"int"}, value : {-1, 0, 80}]
    \cup [kind : {"numeral"}, value : {0}]

\* No Location row.
NoLocation == [id |-> 0, latitude |-> 0, longitude |-> 0]

\* No request has been received.
NoRequest ==
    [state |-> "none", pickup_location |-> "missing",
     dropoff_location |-> "missing",
     cycle_used |-> [kind |-> "missing", value |-> 0],
     runs |-> 0, rows |-> 0, trips |-> 0]
NoResponse == [status |-> 0, cause |-> "none"]

\* get_number_of_days has not been called.
NoEstimate ==
    [called |-> FALSE, raised |-> FALSE, trip |-> 0, cycle_used |-> 0,
     distance |-> 0, num_days |-> 0]

\* ------------------------------------------- the scheduler's helpers ----
\* A RouteInstruction row.
Instruction(id, halt_type, duration, day, location_id) ==
    [id |-> id, halt_type |-> halt_type, duration |-> duration, day |-> day,
     current_location |-> location_id]

\* Line 325 (and 395): remaining_distance > 0.01.
DistanceRemains(remaining) == remaining * 100 > UnitsPerMile

\* Lines 327-332 without the on-duty window term (line 330).
DrivingHoursBeforeBreak_NoWindow(taken_break, driving_today, window, remaining) ==
    Min(Min(IF ~taken_break THEN Hours(MANDATORY_BREAK_THRESHOLD)
                            ELSE Hours(MAX_DRIVE_HOURS_PER_DAY),
            Hours(MAX_DRIVE_HOURS_PER_DAY) - driving_today),
        remaining)

\* Lines 327-332 with the 11 h term for the 8 h term of line 328, whether
\* or not the break was taken.
DrivingHoursBeforeBreak_NoBreakCap(taken_break, driving_today, window, remaining) ==
    Min4(Hours(MAX_DRIVE_HOURS_PER_DAY),
         Hours(MAX_DRIVE_HOURS_PER_DAY) - driving_today,
         Hours(MAX_ON_DUTY_HOURS_PER_DAY) - window,
         remaining)

\* Lines 327-332: the hours to drive before a break or the end of the day.
DrivingHoursBeforeBreak(taken_break, driving_today, window, remaining) ==
    Min4(IF ~taken_break THEN Hours(MANDATORY_BREAK_THRESHOLD)
                         ELSE Hours(MAX_DRIVE_HOURS_PER_DAY),
         Hours(MAX_DRIVE_HOURS_PER_DAY) - driving_today,
         Hours(MAX_ON_DUTY_HOURS_PER_DAY) - window,
         remaining)

\* Line 346: int(driving_hours_before_break * 60), truncating.
DriveDuration(hours) == hours \div TicksPerMinute

\* Line 358: a fuel stop is due.
FuelDue(total, covered) ==
    total >= Miles(FUEL_STOP_INTERVAL) /\ covered >= Miles(FUEL_STOP_INTERVAL)

\* Line 373 with the counter zeroed.
CoveredAfterFuel_Zeroed(covered) == 0

\* Line 373: the fuel-interval counter after a fuel stop.
CoveredAfterFuel(covered) == covered - Miles(FUEL_STOP_INTERVAL)

\* Line 376 with > for >=.
BreakDue_Strict(taken_break, driving_today) ==
    ~taken_break /\ driving_today > Hours(MANDATORY_BREAK_THRESHOLD)

\* Line 376: the mandatory break is due.
BreakDue(taken_break, driving_today) ==
    ~taken_break /\ driving_today >= Hours(MANDATORY_BREAK_THRESHOLD)

\* Lines 394-395 without the on-duty window test of line 394.
RestDue_DailyCapOnly(driving_today, window, remaining) ==
    /\ driving_today >= Hours(MAX_DRIVE_HOURS_PER_DAY)
    /\ DistanceRemains(remaining)

\* Lines 394-395 without the remaining-distance test of line 395.
RestDue_IgnoresRemaining(driving_today, window, remaining) ==
    \/ driving_today >= Hours(MAX_DRIVE_HOURS_PER_DAY)
    \/ window >= Hours(MAX_ON_DUTY_HOURS_PER_DAY)

\* Lines 394-395: the day or the on-duty window is over and distance remains.
RestDue(driving_today, window, remaining) ==
    /\ \/ driving_today >= Hours(MAX_DRIVE_HOURS_PER_DAY)
       \/ window >= Hours(MAX_ON_DUTY_HOURS_PER_DAY)
    /\ DistanceRemains(remaining)

\* Lines 427-429 without the increment of line 428.
DayAfterRest_Stuck(day, time) == day

\* Lines 427-429: the day rolls over when the clock has reached 24 h.
DayAfterRest(day, time) == IF time >= Hours(24) THEN day + 1 ELSE day
TimeAfterRest(time) == IF time >= Hours(24) THEN time - Hours(24) ELSE time

\* Line 447 with its two branches swapped.
NumberOfDays_Swapped(day, time) == IF time < Hours(24) THEN day + 1 ELSE day

\* Line 447: current_day if current_time < 24 else current_day + 1.
NumberOfDays(day, time) == IF time < Hours(24) THEN day ELSE day + 1

\* Lines 432-438 with the pickup location for the dropoff location.
DropoffInstruction_AtPickup(id, day) ==
    Instruction(id, "STOP", PICKUP_DROPOFF_DURATION, day, pickup_location.id)

\* Lines 432-438: the drop-off instruction.
DropoffInstruction(id, day) ==
    Instruction(id, "STOP", PICKUP_DROPOFF_DURATION, day, dropoff_location.id)

\* (halt category, duration, day) of each instruction of a schedule.
Triples(s) == [i \in 1..Len(s) |-> <<s[i].halt_type, s[i].duration, s[i].day>>]

\* No frame of generate_route_instructions: its locals do not exist.
NoFrame ==
    /\ distance' = 0
    /\ current_time' = 0
    /\ current_day' = 0
    /\ remaining_distance' = 0
    /\ total_driving_time_today' = 0
    /\ on_duty_window' = 0
    /\ distance_covered' = 0
    /\ route_instructions' = <<>>
    /\ has_taken_break' = FALSE
    /\ next_instruction' = 0

\* ------------------------------------------------------------- Init ----
Init ==
    /\ trip_distance \in TripDistances
    /\ trip_number_of_days = 1
    /\ trip_route_instructions = <<>>
    /\ pickup_location = TripPickup
    /\ dropoff_location = TripDropoff
    /\ route_instruction_rows = 0
    /\ location_rows = 2
    /\ pc = "idle"
    /\ distance = 0
    /\ current_time = 0
    /\ current_day = 0
    /\ remaining_distance = 0
    /\ total_driving_time_today = 0
    /\ on_duty_window = 0
    /\ distance_covered = 0
    /\ route_instructions = <<>>
    /\ has_taken_break = FALSE
    /\ next_instruction = 0
    /\ waypoint = NoWaypoint
    /\ runs = 0
    /\ snapshot = [distance |-> 0, number_of_days |-> 1,
                   route_instructions |-> <<>>, rows |-> 0]
    /\ provider_answer = [asked |-> FALSE, ok |-> FALSE, distance |-> 0]
    /\ completed = <<>>
    /\ trip_id = 1
    /\ trip_cycle_used = 0
    /\ trips = <<>>
    /\ location_ids = [pickup |-> TripPickup.id, dropoff |-> TripDropoff.id]
    /\ request = NoRequest
    /\ http_response = NoResponse
    /\ estimated = NoEstimate

\* ---------------------------------------------------------- actions ----
\* Lines 272-287 with the collection cleared (line 287) before the
\* distance is resolved.
ResolveDistance_ClearFirst ==
    /\ pc \in {"idle", "done", "failed"}
    /\ UNCHANGED outer_vars
    /\ runs < MaxRuns
    /\ runs' = runs + 1
    /\ snapshot' = [distance |-> trip_distance,
                    number_of_days |-> trip_number_of_days,
                    route_instructions |-> trip_route_instructions,
                    rows |-> route_instruction_rows]
    /\ trip_route_instructions' = <<>>
    /\ IF trip_distance = 0
       THEN \E response \in ProviderResponses :
              LET got == get_distance_and_duration(response)
              IN  /\ provider_answer' = [asked |-> TRUE, ok |-> got.ok,
                                         distance |-> got.distance]
                  /\ IF ~got.ok
                     THEN /\ pc' = "failed"
                          /\ UNCHANGED <<trip_distance, distance>>
                     ELSE /\ pc' = "clear"
                          /\ trip_distance' = got.distance
                          /\ distance' = got.distance
       ELSE /\ pc' = "clear"
            /\ distance' = trip_distance
            /\ provider_answer' = [asked |-> FALSE, ok |-> FALSE, distance |-> 0]
            /\ UNCHANGED trip_distance
    /\ UNCHANGED <<trip_number_of_days, pickup_location, dropoff_location,
                   route_instruction_rows, location_rows, current_time,
                   current_day, remaining_distance, total_driving_time_today,
                   on_duty_window, distance_covered, route_instructions,
                   has_taken_break, next_instruction, waypoint, completed>>

\* Lines 272-284: a run starts; an unknown (0) distance is resolved through
\* get_distance_and_duration and saved, or the run raises ValueError.
ResolveDistance ==
    /\ pc \in {"idle", "done", "failed"}
    /\ UNCHANGED outer_vars
    /\ runs < MaxRuns
    /\ runs' = runs + 1
    /\ snapshot' = [distance |-> trip_distance,
                    number_of_days |-> trip_number_of_days,
                    route_instructions |-> trip_route_instructions,
                    rows |-> route_instruction_rows]
    /\ IF trip_distance = 0
       THEN \E response \in ProviderResponses :
              LET got == get_distance_and_duration(response)
              IN  /\ provider_answer' = [asked |-> TRUE, ok |-> got.ok,
                                         distance |-> got.distance]
                  /\ IF ~got.ok
                     THEN /\ pc' = "failed"
                          /\ UNCHANGED <<trip_distance, distance>>
                     ELSE /\ pc' = "clear"
                          /\ trip_distance' = got.distance
                          /\ distance' = got.distance
       ELSE /\ pc' = "clear"
            /\ distance' = trip_distance
            /\ provider_answer' = [asked |-> FALSE, ok |-> FALSE, distance |-> 0]
            /\ UNCHANGED trip_distance
    /\ UNCHANGED <<trip_number_of_days, trip_route_instructions,
                   pickup_location, dropoff_location, route_instruction_rows,
                   location_rows, current_time, current_day,
                   remaining_distance, total_driving_time_today,
                   on_duty_window, distance_covered, route_instructions,
                   has_taken_break, next_instruction, waypoint, completed>>

\* Lines 286-297 without line 287: the collection is not cleared.
ClearInstructions_KeepCollection ==
    /\ pc = "clear"
    /\ UNCHANGED outer_vars
    /\ pc' = "pretrip"
    /\ current_time' = Hours(DRIVER_WAKE_UP_TIME)
    /\ current_day' = 1
    /\ remaining_distance' = distance
    /\ total_driving_time_today' = 0
    /\ on_duty_window' = 0
    /\ distance_covered' = 0
    /\ route_instructions' = <<>>
    /\ has_taken_break' = FALSE
    /\ next_instruction' = 0
    /\ UNCHANGED <<trip_vars, route_instruction_rows, location_rows,
                   distance, waypoint, history_vars>>

\* Lines 286-297 with the on-duty window started at the trip's cycle_used
\* hours instead of 0 (line 294).
ClearInstructions_CycleCounted ==
    /\ pc = "clear"
    /\ UNCHANGED outer_vars
    /\ pc' = "pretrip"
    /\ trip_route_instructions' = <<>>
    /\ current_time' = Hours(DRIVER_WAKE_UP_TIME)
    /\ current_day' = 1
    /\ remaining_distance' = distance
    /\ total_driving_time_today' = 0
    /\ on_duty_window' = Hours(trip_cycle_used)
    /\ distance_covered' = 0
    /\ route_instructions' = <<>>
    /\ has_taken_break' = FALSE
    /\ next_instruction' = 0
    /\ UNCHANGED <<trip_distance, trip_number_of_days, pickup_location,
                   dropoff_location, route_instruction_rows, location_rows,
                   distance, waypoint, history_vars>>

\* Lines 286-297: the collection is cleared and the locals are set.
ClearInstructions ==
    /\ pc = "clear"
    /\ UNCHANGED outer_vars
    /\ pc' = "pretrip"
    /\ trip_route_instructions' = <<>>
    /\ current_time' = Hours(DRIVER_WAKE_UP_TIME)
    /\ current_day' = 1
    /\ remaining_distance' = distance
    /\ total_driving_time_today' = 0
    /\ on_duty_window' = 0
    /\ distance_covered' = 0
    /\ route_instructions' = <<>>
    /\ has_taken_break' = FALSE
    /\ next_instruction' = 0
    /\ UNCHANGED <<trip_distance, trip_number_of_days, pickup_location,
                   dropoff_location, route_instruction_rows, location_rows,
                   distance, waypoint, history_vars>>

\* Lines 299-310: the pre-trip instruction, 4:00 to 6:00.
PreTrip ==
    /\ pc = "pretrip"
    /\ UNCHANGED outer_vars
    /\ pc' = "pickup"
    /\ route_instructions' =
         Append(route_instructions,
                Instruction(route_instruction_rows + 1, "ON_DUTY_NOT_DRIVING",
                            (DRIVER_START_TIME - DRIVER_WAKE_UP_TIME) * 60,
                            current_day, pickup_location.id))
    /\ route_instruction_rows' = route_instruction_rows + 1
    /\ current_time' = current_time + Hours(DRIVER_START_TIME - DRIVER_WAKE_UP_TIME)
    /\ on_duty_window' = on_duty_window + Hours(DRIVER_START_TIME - DRIVER_WAKE_UP_TIME)
    /\ UNCHANGED <<trip_vars, location_rows, distance, current_day,
                   remaining_distance, total_driving_time_today,
                   distance_covered, has_taken_break, next_instruction,
                   waypoint, history_vars>>

\* Lines 312-322: the pickup instruction.
Pickup ==
    /\ pc = "pickup"
    /\ UNCHANGED outer_vars
    /\ pc' = "loop"
    /\ route_instructions' =
         Append(route_instructions,
                Instruction(route_instruction_rows + 1, "STOP",
                            PICKUP_DROPOFF_DURATION, current_day,
                            pickup_location.id))
    /\ route_instruction_rows' = route_instruction_rows + 1
    /\ current_time' = current_time + Minutes(PICKUP_DROPOFF_DURATION)
    /\ on_duty_window' = on_duty_window + Minutes(PICKUP_DROPOFF_DURATION)
    /\ UNCHANGED <<trip_vars, location_rows, distance, current_day,
                   remaining_distance, total_driving_time_today,
                   distance_covered, has_taken_break, next_instruction,
                   waypoint, history_vars>>

\* Whether a call of generate_random_current_location made now raises, for
\* each answer the providers can give.
WaypointRaised(halt_type) ==
    {generate_random_current_location(pickup_location, dropoff_location,
                                      halt_type, answers).raised :
        answers \in WaypointAnswers}

\* A raise out of generate_route_instructions after the collection was
\* cleared: the frame is gone, what was written stays.
Raise ==
    /\ pc' = "failed"
    /\ NoFrame
    /\ UNCHANGED <<trip_vars, route_instruction_rows, location_rows,
                   waypoint, history_vars>>

\* Lines 325-355: the loop test, the drivable chunk and the DRIVE instruction.
Drive ==
    /\ pc = "loop"
    /\ UNCHANGED outer_vars
    /\ DistanceRemains(remaining_distance)
    /\ LET driving_hours_before_break ==
               DrivingHoursBeforeBreak(has_taken_break, total_driving_time_today,
                                       on_duty_window, remaining_distance)
       IN  IF driving_hours_before_break > 0
           THEN \E raised \in WaypointRaised("DRIVE") :
                  IF raised
                  THEN Raise
                  ELSE /\ pc' = "fuel"
                       /\ distance_covered' = distance_covered + driving_hours_before_break
                       /\ remaining_distance' = remaining_distance - driving_hours_before_break
                       /\ location_rows' = location_rows + 1
                       /\ route_instruction_rows' = route_instruction_rows + 1
                       /\ route_instructions' =
                            Append(route_instructions,
                                   Instruction(route_instruction_rows + 1, "DRIVE",
                                               DriveDuration(driving_hours_before_break),
                                               current_day, location_rows + 1))
                       /\ current_time' = current_time + driving_hours_before_break
                       /\ on_duty_window' = on_duty_window + driving_hours_before_break
                       /\ total_driving_time_today' =
                            total_driving_time_today + driving_hours_before_break
                       /\ UNCHANGED <<trip_vars, distance, current_day,
                                      has_taken_break, next_instruction,
                                      waypoint, history_vars>>
           ELSE /\ pc' = "fuel"
                /\ UNCHANGED <<trip_vars, route_instruction_rows, location_rows,
                               local_vars, waypoint, history_vars>>

\* Lines 357-373: the fuel stop, every FUEL_STOP_INTERVAL miles.
FuelStop ==
    /\ pc = "fuel"
    /\ UNCHANGED outer_vars
    /\ IF FuelDue(distance, distance_covered)
       THEN \E raised \in WaypointRaised("FUEL") :
              IF raised
              THEN Raise
              ELSE /\ pc' = "break"
                   /\ location_rows' = location_rows + 1
                   /\ route_instruction_rows' = route_instruction_rows + 1
                   /\ route_instructions' =
                        Append(route_instructions,
                               Instruction(route_instruction_rows + 1, "FUEL",
                                           FUEL_STOP_DURATION, current_day,
                                           location_rows + 1))
                   /\ current_time' = current_time + Minutes(FUEL_STOP_DURATION)
                   /\ on_duty_window' = on_duty_window + Minutes(FUEL_STOP_DURATION)
                   /\ distance_covered' = CoveredAfterFuel(distance_covered)
                   /\ UNCHANGED <<trip_vars, distance, current_day,
                                  remaining_distance, total_driving_time_today,
                                  has_taken_break, next_instruction, waypoint,
                                  history_vars>>
       ELSE /\ pc' = "break"
            /\ UNCHANGED <<trip_vars, route_instruction_rows, location_rows,
                           local_vars, waypoint, history_vars>>

\* Lines 375-391: the mandatory 30-minute break.
MandatoryBreak ==
    /\ pc = "break"
    /\ UNCHANGED outer_vars
    /\ IF BreakDue(has_taken_break, total_driving_time_today)
       THEN \E raised \in WaypointRaised("BREAK") :
              IF raised
              THEN Raise
              ELSE /\ pc' = "rest"
                   /\ location_rows' = location_rows + 1
                   /\ route_instruction_rows' = route_instruction_rows + 1
                   /\ route_instructions' =
                        Append(route_instructions,
                               Instruction(route_instruction_rows + 1, "BREAK",
                                           MANDATORY_BREAK_DURATION, current_day,
                                           location_rows + 1))
                   /\ current_time' = current_time + Minutes(MANDATORY_BREAK_DURATION)
                   /\ on_duty_window' = on_duty_window + Minutes(MANDATORY_BREAK_DURATION)
                   /\ has_taken_break' = TRUE
                   /\ UNCHANGED <<trip_vars, distance, current_day,
                                  remaining_distance, total_driving_time_today,
                                  distance_covered, next_instruction, waypoint,
                                  history_vars>>
       ELSE /\ pc' = "rest"
            /\ UNCHANGED <<trip_vars, route_instruction_rows, location_rows,
                           local_vars, waypoint, history_vars>>

\* Lines 393-429: the 10-hour rest (sleeper berth, then off duty at the
\* same location), the reset of the window and the day rollover.
Rest ==
    /\ pc = "rest"
    /\ UNCHANGED outer_vars
    /\ IF RestDue(total_driving_time_today, on_duty_window, remaining_distance)
       THEN \E raised \in WaypointRaised("SLEEPER") :
              IF raised
              THEN Raise
              ELSE /\ pc' = "loop"
                   /\ location_rows' = location_rows + 1
                   /\ route_instruction_rows' = route_instruction_rows + 2
                   /\ route_instructions' =
                        route_instructions \o
                        << Instruction(route_instruction_rows + 1, "SLEEPER",
                                       SLEEPER_BERTH_DURATION * 60, current_day,
                                       location_rows + 1),
                           Instruction(route_instruction_rows + 2, "OFF_DUTY",
                                       OFF_DUTY_DURATION * 60, current_day,
                                       location_rows + 1) >>
                   /\ total_driving_time_today' = 0
                   /\ on_duty_window' = 0
                   /\ has_taken_break' = FALSE
                   /\ LET rested == current_time + Hours(SLEEPER_BERTH_DURATION)
                                    + Hours(OFF_DUTY_DURATION)
                      IN  /\ current_day' = DayAfterRest(current_day, rested)
                          /\ current_time' = TimeAfterRest(rested)
                   /\ UNCHANGED <<trip_vars, distance, remaining_distance,
                                  distance_covered, next_instruction, waypoint,
                                  history_vars>>
       ELSE /\ pc' = "loop"
            /\ UNCHANGED <<trip_vars, route_instruction_rows, location_rows,
                           local_vars, waypoint, history_vars>>

\* Lines 431-440: the loop is left and the drop-off instruction is created.
Dropoff ==
    /\ pc = "loop"
    /\ UNCHANGED outer_vars
    /\ ~DistanceRemains(remaining_distance)
    /\ pc' = "add"
    /\ route_instruction_rows' = route_instruction_rows + 1
    /\ route_instructions' =
         Append(route_instructions,
                DropoffInstruction(route_instruction_rows + 1, current_day))
    /\ current_time' = current_time + Minutes(PICKUP_DROPOFF_DURATION)
    /\ next_instruction' = 1
    /\ UNCHANGED <<trip_vars, location_rows, distance, current_day,
                   remaining_distance, total_driving_time_today,
                   on_duty_window, distance_covered, has_taken_break,
                   waypoint, history_vars>>

\* Lines 443-444: one trip.route_instructions.add(instruction).
AddInstruction ==
    /\ pc = "add"
    /\ UNCHANGED outer_vars
    /\ next_instruction <= Len(route_instructions)
    /\ trip_route_instructions' =
         Append(trip_route_instructions, route_instructions[next_instruction])
    /\ next_instruction' = next_instruction + 1
    /\ UNCHANGED <<trip_distance, trip_number_of_days, pickup_location,
                   dropoff_location, route_instruction_rows, location_rows, pc,
                   distance, current_time, current_day, remaining_distance,
                   total_driving_time_today, on_duty_window, distance_covered,
                   route_instructions, has_taken_break, waypoint, history_vars>>

\* Lines 446-448: the number of days is set and the trip saved; the call
\* returns.
SaveTrip ==
    /\ pc = "add"
    /\ UNCHANGED outer_vars
    /\ next_instruction > Len(route_instructions)
    /\ pc' = "done"
    /\ trip_number_of_days' = NumberOfDays(current_day, current_time)
    /\ completed' =
         Append(completed,
                [distance |-> distance, cycle_used |-> trip_cycle_used,
                 schedule |-> Triples(trip_route_instructions),
                 number_of_days |-> NumberOfDays(current_day, current_time)])
    /\ NoFrame
    /\ UNCHANGED <<trip_distance, trip_route_instructions, pickup_location,
                   dropoff_location, route_instruction_rows, location_rows,
                   waypoint, runs, snapshot, provider_answer>>

Next ==
    \/ ResolveDistance
    \/ ClearInstructions
    \/ PreTrip
    \/ Pickup
    \/ Drive
    \/ FuelStop
    \/ MandatoryBreak
    \/ Rest
    \/ Dropoff
    \/ AddInstruction
    \/ SaveTrip

Spec == Init /\ [][Next]_vars

\* The steps of a call of generate_route_instructions that has started:
\* the interpreter runs the call on, statement after statement.
RunStep ==
    \/ ClearInstructions
    \/ PreTrip
    \/ Pickup
    \/ Drive
    \/ FuelStop
    \/ MandatoryBreak
    \/ Rest
    \/ Dropoff
    \/ AddInstruction
    \/ SaveTrip

\* The first call of generate_route_instructions on the stored trip.
FirstRun ==
    /\ runs = 0
    /\ ResolveDistance

NextRunning ==
    \/ FirstRun
    \/ RunStep

\* One call on the stored trip, not left for ever at a statement it can
\* execute.
SpecRunning == Init /\ [][NextRunning]_vars /\ WF_vars(RunStep)

\* ------------------------------------------------------ the Trip table ----
\* The Trip row the trip_ variables hold.
CurrentTrip ==
    [id |-> trip_id, cycle_used |-> trip_cycle_used,
     distance |-> trip_distance, number_of_days |-> trip_number_of_days,
     route_instructions |-> Triples(trip_route_instructions)]

\* The Trip table: the earlier rows and the row of the trip_ variables.
StoredTrips == IF trip_id = 0 THEN trips ELSE Append(trips, CurrentTrip)

\* ------------------------------------------------ get_number_of_days ----
\* Lines 61-69: the estimator's locals before its loop; the driving
\* hours are the trip's distance at the average speed (line 44).
EstimatorStart(trip) ==
    [current_time |-> Hours(DRIVER_WAKE_UP_TIME)
                      + Hours(DRIVER_START_TIME - DRIVER_WAKE_UP_TIME),
     remaining_driving_hours |-> trip.distance,
     total_driving_time_today |-> 0,
     on_duty_window |-> Hours(DRIVER_START_TIME - DRIVER_WAKE_UP_TIME),
     num_days |-> 1]

\* Lines 73-84: the chunk of one iteration, driven when positive.
EstimatorDrive(est) ==
    LET driving_hours_before_break ==
            Min4(Hours(MANDATORY_BREAK_THRESHOLD),
                 Hours(MAX_DRIVE_HOURS_PER_DAY) - est.total_driving_time_today,
                 Hours(MAX_ON_DUTY_HOURS_PER_DAY) - est.on_duty_window,
                 est.remaining_driving_hours)
    IN  IF driving_hours_before_break > 0
        THEN [est EXCEPT
                !.current_time = @ + driving_hours_before_break,
                !.on_duty_window = @ + driving_hours_before_break,
                !.total_driving_time_today = @ + driving_hours_before_break,
                !.remaining_driving_hours = @ - driving_hours_before_break]
        ELSE est

\* Lines 87-89: half an hour of break whenever 8 h were driven today and
\* the window is still open.
EstimatorBreak(est) ==
    IF /\ est.total_driving_time_today >= Hours(MANDATORY_BREAK_THRESHOLD)
       /\ est.on_duty_window < Hours(MAX_ON_DUTY_HOURS_PER_DAY)
    THEN [est EXCEPT !.current_time = @ + Minutes(MANDATORY_BREAK_DURATION),
                     !.on_duty_window = @ + Minutes(MANDATORY_BREAK_DURATION)]
    ELSE est

\* Lines 92-104: the 10-hour rest and the day rollover.
EstimatorRest(est) ==
    IF /\ \/ est.total_driving_time_today >= Hours(MAX_DRIVE_HOURS_PER_DAY)
          \/ est.on_duty_window >= Hours(MAX_ON_DUTY_HOURS_PER_DAY)
       /\ est.remaining_driving_hours > 0
    THEN LET rested == est.current_time + Hours(SLEEPER_BERTH_DURATION)
                       + Hours(OFF_DUTY_DURATION)
         IN  [est EXCEPT !.total_driving_time_today = 0,
                         !.on_duty_window = 0,
                         !.num_days = IF rested >= Hours(24) THEN @ + 1 ELSE @,
                         !.current_time = IF rested >= Hours(24)
                                          THEN rested - Hours(24) ELSE rested]
    ELSE est

RECURSIVE EstimatorLoop(_)
\* Lines 71-104: the loop, while remaining_driving_hours > 0.
EstimatorLoop(est) ==
    IF est.remaining_driving_hours > 0
    THEN EstimatorLoop(EstimatorRest(EstimatorBreak(EstimatorDrive(est))))
    ELSE est

\* Lines 44-113 for a trip (a Trip row) whose distance is known: the day
\* count.
get_number_of_days(trip) ==
    LET est == EstimatorLoop(EstimatorStart(trip))
        final_time == est.current_time + Minutes(PICKUP_DROPOFF_DURATION * 2)
        num_days == IF final_time >= Hours(24) THEN est.num_days + 1
                                               ELSE est.num_days
    IN  IF num_days >= 1 THEN num_days ELSE 1

\* Lines 29-113: a call of get_number_of_days on the trip; an unknown (0)
\* distance is resolved and saved first, or the call raises ValueError.
GetNumberOfDays ==
    /\ pc \in {"idle", "done", "failed"}
    /\ request.state # "running"
    /\ trip_id # 0
    /\ IF trip_distance = 0
       THEN \E answer \in ProviderResponses :
              LET got == get_distance_and_duration(answer)
              IN  IF ~got.ok
                  THEN /\ estimated' = [called |-> TRUE, raised |-> TRUE,
                                        trip |-> trip_id,
                                        cycle_used |-> trip_cycle_used,
                                        distance |-> 0, num_days |-> 0]
                       /\ UNCHANGED trip_distance
                  ELSE /\ trip_distance' = got.distance
                       /\ estimated' =
                            [called |-> TRUE, raised |-> FALSE,
                             trip |-> trip_id, cycle_used |-> trip_cycle_used,
                             distance |-> got.distance,
                             num_days |-> get_number_of_days(
                                 [CurrentTrip EXCEPT !.distance = got.distance])]
       ELSE /\ estimated' = [called |-> TRUE, raised |-> FALSE,
                             trip |-> trip_id, cycle_used |-> trip_cycle_used,
                             distance |-> trip_distance,
                             num_days |-> get_number_of_days(CurrentTrip)]
            /\ UNCHANGED trip_distance
    /\ UNCHANGED <<trip_number_of_days, trip_route_instructions,
                   pickup_location, dropoff_location, route_instruction_rows,
                   location_rows, pc, local_vars, waypoint, history_vars,
                   trip_id, trip_cycle_used, trips, location_ids, request,
                   http_response>>

\* The scheduler and the estimator, called on the stored trip in any order.
NextEstimate ==
    \/ Next
    \/ GetNumberOfDays

SpecEstimate == Init /\ [][NextEstimate]_vars

\* ------------------------------------- TripCreateAndGetAllView.post ----
\* Python's `not cycle_used`: None and the number 0 are false, a
\* non-empty string is true.
IsFalsy(cycle_used) ==
    CASE cycle_used.kind = "missing" -> TRUE
      [] cycle_used.kind = "int" -> cycle_used.value = 0
      [] OTHER -> FALSE

\* views.py line 43: a field is missing (or false).
FieldsMissing(pickup, dropoff, cycle_used) ==
    pickup = "missing" \/ dropoff = "missing" \/ IsFalsy(cycle_used)

\* models.py lines 48-51, not enforced.
CycleUsedGte0_NotEnforced(cycle_used) == TRUE

\* models.py lines 48-51: the check constraint cycle_used_gte_0.
CycleUsedGte0(cycle_used) == cycle_used >= 0

\* views.py lines 51-55: int(cycle_used) raises ValueError, or the insert
\* violates the check constraint and raises IntegrityError.
TripCreateRaises(cycle_used) ==
    cycle_used.kind = "text" \/ ~CycleUsedGte0(cycle_used.value)

\* views.py lines 20-30: the id get_or_create returns for a name, given
\* the id the name has (0: none) and the number of Location rows.
GetOrCreateLocation(known_id, rows) == IF known_id # 0 THEN known_id ELSE rows + 1

\* The state before the first request: no Trip row, no Location row.
InitPost ==
    /\ trip_distance = 0
    /\ trip_number_of_days = 1
    /\ trip_route_instructions = <<>>
    /\ pickup_location = NoLocation
    /\ dropoff_location = NoLocation
    /\ route_instruction_rows = 0
    /\ location_rows = 0
    /\ pc = "idle"
    /\ distance = 0
    /\ current_time = 0
    /\ current_day = 0
    /\ remaining_distance = 0
    /\ total_driving_time_today = 0
    /\ on_duty_window = 0
    /\ distance_covered = 0
    /\ route_instructions = <<>>
    /\ has_taken_break = FALSE
    /\ next_instruction = 0
    /\ waypoint = NoWaypoint
    /\ runs = 0
    /\ snapshot = [distance |-> 0, number_of_days |-> 1,
                   route_instructions |-> <<>>, rows |-> 0]
    /\ provider_answer = [asked |-> FALSE, ok |-> FALSE, distance |-> 0]
    /\ completed = <<>>
    /\ trip_id = 0
    /\ trip_cycle_used = 0
    /\ trips = <<>>
    /\ location_ids = [pickup |-> 0, dropoff |-> 0]
    /\ request = NoRequest
    /\ http_response = NoResponse
    /\ estimated = NoEstimate

\* views.py lines 36-55: a request is received; it is answered 400 when a
\* field is missing, else the two locations are looked up or created and
\* the Trip row is created (distance 0, no instruction), or the creation
\* raises and the except clause of line 63 answers 500.
PostReceive ==
    /\ request.state # "running"
    /\ pc \in {"idle", "done", "failed"}
    /\ runs < MaxRuns
    /\ \E pickup \in LocationInputs, dropoff \in LocationInputs,
          cycle_used \in CycleUsedInputs :
         LET received == [state |-> "answered", pickup_location |-> pickup,
                          dropoff_location |-> dropoff,
                          cycle_used |-> cycle_used, runs |-> runs,
                          rows |-> route_instruction_rows,
                          trips |-> Len(StoredTrips)]
             pickup_id == GetOrCreateLocation(location_ids.pickup, location_rows)
             pickup_rows == IF pickup_id > location_rows THEN pickup_id
                                                         ELSE location_rows
             dropoff_id == GetOrCreateLocation(location_ids.dropoff, pickup_rows)
             dropoff_rows == IF dropoff_id > pickup_rows THEN dropoff_id
                                                         ELSE pickup_rows
         IN  IF FieldsMissing(pickup, dropoff, cycle_used)
             THEN /\ request' = received
                  /\ http_response' = [status |-> 400, cause |-> "fields"]
                  /\ UNCHANGED <<trip_vars, location_rows, location_ids, pc,
                                 trip_id, trip_cycle_used, trips>>
             ELSE /\ location_ids' = [pickup |-> pickup_id, dropoff |-> dropoff_id]
                  /\ location_rows' = dropoff_rows
                  /\ IF TripCreateRaises(cycle_used)
                     THEN /\ request' = received
                          /\ http_response' = [status |-> 500, cause |-> "create"]
                          /\ UNCHANGED <<trip_vars, pc, trip_id,
                                         trip_cycle_used, trips>>
                     ELSE /\ request' = [received EXCEPT !.state = "running"]
                          /\ http_response' = NoResponse
                          /\ trips' = StoredTrips
                          /\ trip_id' = Len(StoredTrips) + 1
                          /\ trip_cycle_used' = cycle_used.value
                          /\ trip_distance' = 0
                          /\ trip_number_of_days' = 1
                          /\ trip_route_instructions' = <<>>
                          /\ pickup_location' = [TripPickup EXCEPT !.id = pickup_id]
                          /\ dropoff_location' = [TripDropoff EXCEPT !.id = dropoff_id]
                          /\ pc' = "idle"
    /\ UNCHANGED <<route_instruction_rows, local_vars, waypoint, history_vars,
                   estimated>>

\* views.py line 58: generate_route_instructions is called on the new trip.
PostGenerate ==
    /\ request.state = "running"
    /\ pc = "idle"
    /\ ResolveDistance

\* views.py lines 59-64: the call has returned and the trip is answered
\* with 201, or it has raised and the except clause answers 500.
PostRespond ==
    /\ request.state = "running"
    /\ pc \in {"done", "failed"}
    /\ request' = [request EXCEPT !.state = "answered"]
    /\ http_response' = IF pc = "done"
                        THEN [status |-> 201, cause |-> "none"]
                        ELSE [status |-> 500, cause |-> "generate"]
    /\ UNCHANGED <<trip_vars, route_instruction_rows, location_rows, pc,
                   local_vars, waypoint, history_vars, trip_id,
                   trip_cycle_used, trips, location_ids, estimated>>

\* The requests, each served to its response before the next is received.
NextPost ==
    \/ PostReceive
    \/ PostGenerate
    \/ RunStep
    \/ PostRespond

SpecPost == InitPost /\ [][NextPost]_vars

\* ------------------------------- one waypoint lookup, observed alone ----
\* generate_random_current_location is called by the simulator with the
\* halt types of lines 342, 367, 385 and 405; here one call is made for
\* every pickup, dropoff, halt type and answer of the providers, and the
\* Location it returns is kept.
InitWaypoint ==
    /\ trip_distance = 0
    /\ trip_number_of_days = 1
    /\ trip_route_instructions = <<>>
    /\ pickup_location \in WaypointLocations
    /\ dropoff_location \in WaypointLocations
    /\ route_instruction_rows = 0
    /\ location_rows = 2
    /\ pc = "waypoint"
    /\ distance = 0
    /\ current_time = 0
    /\ current_day = 0
    /\ remaining_distance = 0
    /\ total_driving_time_today = 0
    /\ on_duty_window = 0
    /\ distance_covered = 0
    /\ route_instructions = <<>>
    /\ has_taken_break = FALSE
    /\ next_instruction = 0
    /\ waypoint \in {[NoWaypoint EXCEPT !.halt_type = h] : h \in WaypointHaltTypes}
    /\ runs = 0
    /\ snapshot = [distance |-> 0, number_of_days |-> 1,
                   route_instructions |-> <<>>, rows |-> 0]
    /\ provider_answer = [asked |-> FALSE, ok |-> FALSE, distance |-> 0]
    /\ completed = <<>>
    /\ trip_id = 1
    /\ trip_cycle_used = 0
    /\ trips = <<>>
    /\ location_ids = [pickup |-> TripPickup.id, dropoff |-> TripDropoff.id]
    /\ request = NoRequest
    /\ http_response = NoResponse
    /\ estimated = NoEstimate

\* Lines 116-214: one call; Location.objects.create adds a row unless the
\* call raises.
WaypointCall ==
    /\ pc = "waypoint"
    /\ UNCHANGED outer_vars
    /\ ~waypoint.called
    /\ \E answers \in WaypointAnswers :
         LET got == generate_random_current_location(
                        pickup_location, dropoff_location, waypoint.halt_type,
                        answers)
         IN  /\ waypoint' = [waypoint EXCEPT !.called = TRUE,
                                             !.raised = got.raised,
                                             !.answers = answers,
                                             !.location = got.location]
             /\ location_rows' = IF got.raised THEN location_rows
                                               ELSE location_rows + 1
    /\ UNCHANGED <<trip_vars, route_instruction_rows, pc, local_vars,
                   history_vars>>

NextWaypoint == WaypointCall

SpecWaypoint == InitWaypoint /\ [][NextWaypoint]_vars

\* ------------------------------------------- reading a schedule ----
\* The schedule a finished run has stored on the trip.
Schedule == trip_route_instructions

RECURSIVE DurationSum(_, _, _)
\* The minutes of the instructions i..j of schedule s.
DurationSum(s, i, j) ==
    IF i > j THEN 0 ELSE s[j].duration + DurationSum(s, i, j - 1)

RECURSIVE DriveSum(_, _, _)
\* The minutes of the DRIVE instructions among i..j of schedule s.
DriveSum(s, i, j) ==
    IF i > j THEN 0
    ELSE (IF s[j].halt_type = "DRIVE" THEN s[j].duration ELSE 0)
         + DriveSum(s, i, j - 1)

\* The instructions among i..j of schedule s with the given halt type.
Among(s, i, j, halt_type) == {k \in i..j : s[k].halt_type = halt_type}

\* An instruction of the 10-hour rest between two on-duty windows.
IsRest(seg) == seg.halt_type \in {"SLEEPER", "OFF_DUTY"}

\* An on-duty window starts at the trip's start and after each OFF_DUTY.
WindowStarts(s) ==
    {i \in 1..Len(s) : ~IsRest(s[i]) /\ (i = 1 \/ s[i - 1].halt_type = "OFF_DUTY")}

RECURSIVE WindowEnd(_, _)
\* The last instruction of the window that instruction i is in: the one
\* before the next SLEEPER, or the schedule's last.
WindowEnd(s, i) ==
    IF i = Len(s) \/ s[i + 1].halt_type = "SLEEPER" THEN i ELSE WindowEnd(s, i + 1)

\* ---------------------------------------------------------------- C1 ----
\* C1: in the schedule of every finished run, in every on-duty window the
\* DRIVE minutes sum to at most 11 h (660 min), and no DRIVE ends later
\* than 14 h (840 min) after the window's start, all the window's
\* instructions (pre-trip, pickup, fuel, break) counted.
HosCapsRespected ==
    pc = "done" =>
      \A w \in WindowStarts(Schedule) :
        \A i \in Among(Schedule, w, WindowEnd(Schedule, w), "DRIVE") :
          /\ DriveSum(Schedule, w, i) <= MAX_DRIVE_HOURS_PER_DAY * 60
          /\ DurationSum(Schedule, w, i) <= MAX_ON_DUTY_HOURS_PER_DAY * 60

\* C1 witness: a finished multi-day schedule in which one window's last
\* DRIVE ends exactly at the 14th hour and another window drives exactly
\* 11 hours.
BothCapsReached ==
    /\ pc = "done"
    /\ \E w \in WindowStarts(Schedule) :
         \E i \in Among(Schedule, w, WindowEnd(Schedule, w), "DRIVE") :
           DurationSum(Schedule, w, i) = MAX_ON_DUTY_HOURS_PER_DAY * 60
    /\ \E w \in WindowStarts(Schedule) :
         DriveSum(Schedule, w, WindowEnd(Schedule, w)) = MAX_DRIVE_HOURS_PER_DAY * 60

\* ---------------------------------------------------------------- C2 ----
\* C2: in the schedule of every finished run, a window whose driving
\* reaches 8 h (480 min) holds exactly one BREAK, of 30 minutes, and no
\* DRIVE of the window that starts at or after the 8th hour of driving
\* comes before it; a window that drives less holds no BREAK.
OneBreakPerLongWindow ==
    pc = "done" =>
      \A w \in WindowStarts(Schedule) :
        LET e == WindowEnd(Schedule, w)
            breaks == Among(Schedule, w, e, "BREAK")
            threshold == MANDATORY_BREAK_THRESHOLD * 60
        IN  /\ Cardinality(breaks) <= 1
            /\ \A b \in breaks : Schedule[b].duration = 30
            /\ DriveSum(Schedule, w, e) >= threshold
                 => /\ Cardinality(breaks) = 1
                    /\ \A i \in Among(Schedule, w, e, "DRIVE") :
                         DriveSum(Schedule, w, i - 1) >= threshold
                           => \E b \in breaks : b < i
            /\ DriveSum(Schedule, w, e) < threshold => breaks = {}

\* C2 witness: a finished schedule with a window that drives past the 8th
\* hour after its BREAK and a later window that drives less and has none.
LongAndShortWindow ==
    /\ pc = "done"
    /\ \E w \in WindowStarts(Schedule) :
         LET e == WindowEnd(Schedule, w)
         IN  /\ DriveSum(Schedule, w, e) > MANDATORY_BREAK_THRESHOLD * 60
             /\ Cardinality(Among(Schedule, w, e, "BREAK")) = 1
    /\ \E w \in WindowStarts(Schedule) :
         LET e == WindowEnd(Schedule, w)
         IN  /\ Among(Schedule, w, e, "DRIVE") # {}
             /\ DriveSum(Schedule, w, e) < MANDATORY_BREAK_THRESHOLD * 60
             /\ Among(Schedule, w, e, "BREAK") = {}

\* ---------------------------------------------------------------- C3 ----
\* C3: in the schedule of every finished run the DRIVE minutes, turned back
\* into miles at the average speed, give the trip's distance within the
\* loop's own tolerance of 0.01 mile: int(hours * 60) loses no driving time.
DriveMinutesGiveBackDistance ==
    pc = "done" =>
      LET driven == Minutes(DriveSum(Schedule, 1, Len(Schedule)))
      IN  /\ (trip_distance - driven) * 100 <= UnitsPerMile
          /\ (driven - trip_distance) * 100 <= UnitsPerMile

\* ---------------------------------------------------------------- C4 ----
\* The minute of the trip (minute 0 is 00:00 of day 1) at which
\* instruction i of schedule s starts, the clock starting at 04:00.
StartMinute(s, i) == DRIVER_WAKE_UP_TIME * 60 + DurationSum(s, 1, i - 1)

\* C4: in the schedule of every finished run the day index never
\* decreases, and every instruction that starts after the clock has passed
\* the k-th midnight carries day k + 1, whichever instruction the clock
\* was in when it passed it.
DayFollowsWallClock ==
    pc = "done" =>
      /\ \A i \in 2..Len(Schedule) : Schedule[i - 1].day <= Schedule[i].day
      /\ \A i \in 1..Len(Schedule) :
           Schedule[i].day = 1 + (StartMinute(Schedule, i) \div MinutesPerDay)

\* ---------------------------------------------------------------- C5 ----
\* C5: the schedule of every finished run starts with ON_DUTY_NOT_DRIVING
\* (120 min, pickup location, day 1) and STOP (60 min, pickup location,
\* day 1), ends with STOP (60 min, dropoff location), and holds no other
\* STOP or ON_DUTY_NOT_DRIVING in between.
PreTripPickupDropoffFrame ==
    pc = "done" =>
      LET n == Len(Schedule)
      IN  /\ n >= 3
          /\ Schedule[1].halt_type = "ON_DUTY_NOT_DRIVING"
          /\ Schedule[1].duration = 120
          /\ Schedule[1].day = 1
          /\ Schedule[1].current_location = pickup_location.id
          /\ Schedule[2].halt_type = "STOP"
          /\ Schedule[2].duration = 60
          /\ Schedule[2].day = 1
          /\ Schedule[2].current_location = pickup_location.id
          /\ Schedule[n].halt_type = "STOP"
          /\ Schedule[n].duration = 60
          /\ Schedule[n].current_location = dropoff_location.id
          /\ pickup_location.id # dropoff_location.id
          /\ \A i \in 3..(n - 1) :
               Schedule[i].halt_type \notin {"STOP", "ON_DUTY_NOT_DRIVING"}

\* C5 witness: a finished schedule with driving, a break and a rest between
\* the pickup and a dropoff on a later day.
FramedMultiDaySchedule ==
    /\ pc = "done"
    /\ Among(Schedule, 1, Len(Schedule), "BREAK") # {}
    /\ Among(Schedule, 1, Len(Schedule), "OFF_DUTY") # {}
    /\ Schedule[Len(Schedule)].halt_type = "STOP"
    /\ Schedule[Len(Schedule)].day > 1

\* ---------------------------------------------------------------- C6 ----
\* The three fixed instructions of a trip without driving.
ThreeFixedSegments ==
    /\ Triples(Schedule) = << <<"ON_DUTY_NOT_DRIVING", 120, 1>>,
                              <<"STOP", 60, 1>>, <<"STOP", 60, 1>> >>
    /\ Schedule[2].current_location = pickup_location.id
    /\ Schedule[3].current_location = dropoff_location.id

UnresolvedDistancePersistsNothing ==
    (provider_answer.asked /\ ~provider_answer.ok) =>
      /\ pc = "failed"
      /\ route_instruction_rows = snapshot.rows
      /\ trip_route_instructions = snapshot.route_instructions
      /\ trip_distance = snapshot.distance
      /\ trip_number_of_days = snapshot.number_of_days

\* C7 witness: a run failed on a trip that held a schedule, and it still
\* holds it.
FailedRunKeepsSchedule ==
    /\ pc = "failed"
    /\ provider_answer.asked
    /\ ~provider_answer.ok
    /\ snapshot.route_instructions # <<>>
    /\ trip_route_instructions = snapshot.route_instructions

\* ---------------------------------------------------------------- C8 ----
\* C8: at every point of a run the trip's collection is the complete
\* schedule the run found or the complete schedule the run built.
ReplacedAtomically ==
    runs >= 1 =>
      \/ trip_route_instructions = snapshot.route_instructions
      \/ pc = "done"
      \/ /\ pc = "add"
         /\ trip_route_instructions = route_instructions

\* ---------------------------------------------------------------- C9 ----
\* The last completed run and the one before it.
LastRun == completed[Len(completed)]
RunBefore == completed[Len(completed) - 1]

\* C9 as stated: after a second finished run the collection holds only
\* rows that run created, and its (halt category, duration, day) sequence
\* and number_of_days are those of the run before.
RerunAlwaysSameSchedule ==
    (pc = "done" /\ Len(completed) >= 2) =>
      /\ \A i \in 1..Len(Schedule) : Schedule[i].id > snapshot.rows
      /\ Triples(Schedule) = RunBefore.schedule
      /\ trip_number_of_days = RunBefore.number_of_days

\* C9 as amended: after a second finished run the collection holds only
\* rows that run created; a trip whose distance was not 0 after the run
\* before is scheduled for the same distance, and a run for the same
\* distance gives the same (halt category, duration, day) sequence and
\* number_of_days.
RerunSameDistanceSameSchedule ==
    (pc = "done" /\ Len(completed) >= 2) =>
      /\ \A i \in 1..Len(Schedule) : Schedule[i].id > snapshot.rows
      /\ Len(Schedule) = Len(LastRun.schedule)
      /\ RunBefore.distance # 0 => LastRun.distance = RunBefore.distance
      /\ LastRun.distance = RunBefore.distance
           => /\ Triples(Schedule) = RunBefore.schedule
              /\ trip_number_of_days = RunBefore.number_of_days

\* C9 witness: a second finished run of a multi-day trip, the first run's
\* schedule having been on the trip when it started.
RerunOfMultiDayTrip ==
    /\ pc = "done"
    /\ Len(completed) >= 2
    /\ RunBefore.distance # 0
    /\ Len(snapshot.route_instructions) > 8
    /\ Triples(Schedule) = Triples(snapshot.route_instructions)

\* --------------------------------------------------------------- C10 ----
\* The route lookup errs: a failed request, a malformed payload, or fewer
\* than 3 coordinates.
RouteErrs(route) == route.kind # "ok" \/ route.ncoords < 3

FuelStops(s) == Among(s, 1, Len(s), "FUEL")

\* C11: the schedule of every finished run holds exactly floor(d / 1000)
\* FUEL instructions, d the trip's distance in miles, each of 30 minutes;
\* and once the fuel check of an iteration is passed the fuel-interval
\* counter is below 1000 miles and not negative.
FuelStopPerThousandMiles ==
    /\ pc = "done" =>
         /\ Cardinality(FuelStops(Schedule)) =
               trip_distance \div Miles(FUEL_STOP_INTERVAL)
         /\ \A i \in FuelStops(Schedule) : Schedule[i].duration = 30
    /\ pc \in {"break", "rest", "loop"} =>
         /\ distance_covered < Miles(FUEL_STOP_INTERVAL)
         /\ distance_covered >= 0

\* C11 witness: a finished schedule of a trip that is not a whole number
\* of thousands of miles, with three FUEL instructions: the remainder was
\* carried over twice.
ThreeFuelStopsWithRemainder ==
    /\ pc = "done"
    /\ trip_distance % Miles(FUEL_STOP_INTERVAL) # 0
    /\ Cardinality(FuelStops(Schedule)) = 3

\* --------------------------------------------------------------- C12 ----
\* The SLEEPER instructions of schedule s that an OFF_DUTY follows.
RestPairs(s) ==
    {i \in Among(s, 1, Len(s) - 1, "SLEEPER") : s[i + 1].halt_type = "OFF_DUTY"}

\* C12: the finished run of a trip of 2100 miles has stored at least two
\* FUEL instructions and at least one SLEEPER directly followed by an
\* OFF_DUTY, and number_of_days is at least 3.
TwentyOneHundredMiles ==
    (pc = "done" /\ trip_distance = Miles(2100)) =>
      /\ Cardinality(FuelStops(Schedule)) >= 2
      /\ RestPairs(Schedule) # {}
      /\ trip_number_of_days >= 3

\* C12 witness: the finished run of a trip of 2100 miles, with two FUEL
\* instructions, three rests and number_of_days = 4.
TwentyOneHundredMilesScheduled ==
    /\ pc = "done"
    /\ trip_distance = Miles(2100)
    /\ Cardinality(FuelStops(Schedule)) = 2
    /\ Cardinality(RestPairs(Schedule)) = 3
    /\ trip_number_of_days = 4

\* --------------------------------------------------------------- C13 ----
\* C13: the finished run of a trip of 440 to 577.5 miles (8 h to 10.5 h
\* of driving) has stored no FUEL, no SLEEPER and no OFF_DUTY, and one
\* BREAK, which directly follows a DRIVE of 480 minutes that is the
\* schedule's first DRIVE; number_of_days is 1.
OneDayTripWithOneBreak ==
    (pc = "done" /\ trip_distance >= Miles(440)
                /\ 2 * trip_distance <= Miles(1155)) =>
      LET n == Len(Schedule)
          breaks == Among(Schedule, 1, n, "BREAK")
      IN  /\ FuelStops(Schedule) = {}
          /\ Among(Schedule, 1, n, "SLEEPER") = {}
          /\ Among(Schedule, 1, n, "OFF_DUTY") = {}
          /\ Cardinality(breaks) = 1
          /\ \A b \in breaks :
               /\ Schedule[b - 1].halt_type = "DRIVE"
               /\ Schedule[b - 1].duration = 480
               /\ DriveSum(Schedule, 1, b - 1) = 480
               /\ Schedule[b].duration = 30
          /\ trip_number_of_days = 1

\* C13 witness: the finished run of a trip of 550 miles: pre-trip, pickup,
\* DRIVE 480, BREAK 30, DRIVE 120, dropoff, all on day 1.
FiveHundredFiftyMilesScheduled ==
    /\ pc = "done"
    /\ trip_distance = Miles(550)
    /\ Triples(Schedule) =
         << <<"ON_DUTY_NOT_DRIVING", 120, 1>>, <<"STOP", 60, 1>>,
            <<"DRIVE", 480, 1>>, <<"BREAK", 30, 1>>, <<"DRIVE", 120, 1>>,
            <<"STOP", 60, 1>> >>

\* --------------------------------------------------------------- C16 ----
\* The chunk the loop computes at lines 327-332 from the present locals.
ChunkNow ==
    DrivingHoursBeforeBreak(has_taken_break, total_driving_time_today,
                            on_duty_window, remaining_distance)

\* C16: whenever the loop test finds distance remaining, the day's driving
\* is below 11 h, the on-duty window below 14 h and the chunk positive;
\* every iteration started there appends a DRIVE and leaves less distance;
\* and a call that has reached the loop goes on to create the dropoff STOP.
LoopTerminates ==
    /\ [](( pc = "loop" /\ DistanceRemains(remaining_distance)) =>
            /\ total_driving_time_today < Hours(MAX_DRIVE_HOURS_PER_DAY)
            /\ on_duty_window < Hours(MAX_ON_DUTY_HOURS_PER_DAY)
            /\ ChunkNow > 0)
    /\ [][(pc = "loop" /\ pc' = "fuel") =>
            /\ remaining_distance' < remaining_distance
            /\ remaining_distance' >= 0
            /\ Len(route_instructions') = Len(route_instructions) + 1
            /\ route_instructions'[Len(route_instructions')].halt_type = "DRIVE"]_vars
    /\ (pc = "loop") ~> (pc = "add")

\* C16 witness: the loop was left after twelve iterations and the
\* dropoff STOP created.
LoopLeftAfterManyIterations ==
    /\ pc = "add"
    /\ Cardinality(Among(route_instructions, 1, Len(route_instructions), "DRIVE")) >= 12
    /\ route_instructions[Len(route_instructions)].halt_type = "STOP"
    /\ ~DistanceRemains(remaining_distance)

\* --------------------------------------------------------------- C17 ----
\* C17: in the schedule of every finished run each SLEEPER lasts 420
\* minutes and is directly followed by an OFF_DUTY of 180 minutes with the
\* same day and the same location; each OFF_DUTY directly follows a
\* SLEEPER and is directly followed by a DRIVE (so none precedes the
\* dropoff STOP); the window a SLEEPER ends has 660 minutes of driving
\* or 840 minutes on duty.  And right after a rest the call has the day's
\* driving and the on-duty window at 0, the break flag down and distance
\* remaining.
RestOnlyAtCapWithDistanceLeft ==
    /\ pc = "done" =>
         LET n == Len(Schedule)
         IN  /\ \A i \in Among(Schedule, 1, n, "SLEEPER") :
                  /\ Schedule[i].duration = 420
                  /\ i + 1 < n
                  /\ Schedule[i + 1].halt_type = "OFF_DUTY"
                  /\ Schedule[i + 1].duration = 180
                  /\ Schedule[i + 1].day = Schedule[i].day
                  /\ Schedule[i + 1].current_location = Schedule[i].current_location
                  /\ Schedule[i + 2].halt_type = "DRIVE"
             /\ \A i \in Among(Schedule, 1, n, "OFF_DUTY") :
                  Schedule[i - 1].halt_type = "SLEEPER"
             /\ \A w \in WindowStarts(Schedule) :
                  LET e == WindowEnd(Schedule, w)
                  IN  e < n =>
                        \/ DriveSum(Schedule, w, e) >= MAX_DRIVE_HOURS_PER_DAY * 60
                        \/ DurationSum(Schedule, w, e) >= MAX_ON_DUTY_HOURS_PER_DAY * 60
    /\ ( /\ pc = "loop"
         /\ route_instructions # <<>>
         /\ route_instructions[Len(route_instructions)].halt_type = "OFF_DUTY" ) =>
         /\ total_driving_time_today = 0
         /\ on_duty_window = 0
         /\ ~has_taken_break
         /\ DistanceRemains(remaining_distance)

\* C17 witness: a finished schedule with a rest taken at the 14-hour cap
\* (less than 660 minutes driven in the window) and a rest taken at the
\* 11-hour cap.
RestAtEitherCap ==
    /\ pc = "done"
    /\ \E w \in WindowStarts(Schedule) :
         LET e == WindowEnd(Schedule, w)
         IN  /\ e < Len(Schedule)
             /\ DriveSum(Schedule, w, e) < MAX_DRIVE_HOURS_PER_DAY * 60
    /\ \E w \in WindowStarts(Schedule) :
         LET e == WindowEnd(Schedule, w)
         IN  /\ e < Len(Schedule)
             /\ DriveSum(Schedule, w, e) = MAX_DRIVE_HOURS_PER_DAY * 60
             /\ DurationSum(Schedule, w, e) < MAX_ON_DUTY_HOURS_PER_DAY * 60

\* --------------------------------------------------------------- C18 ----
\* C18: a call of get_number_of_days that did not raise returned a day
\* count of at least 1, and when the last finished run of
\* generate_route_instructions was for the same distance, the
\* number_of_days that run stored is the day count returned.
EstimatorMirrorsSimulator ==
    (estimated.called /\ ~estimated.raised) =>
      /\ estimated.num_days >= 1
      /\ (completed # <<>> /\ LastRun.distance = estimated.distance)
           => estimated.num_days = LastRun.number_of_days

\* --------------------------------------------------------------- C14 ----
\* C14: any two finished runs of generate_route_instructions for the same
\* distance stored the same (halt category, duration, day) sequence and
\* the same number_of_days, whatever the cycle_used of their trips; and
\* for any two stored trips of the same known distance get_number_of_days
\* gives the same day count, whatever their cycle_used.
CycleUsedHasNoInfluence ==
    /\ \A i, j \in 1..Len(completed) :
         completed[i].distance = completed[j].distance =>
           /\ completed[i].schedule = completed[j].schedule
           /\ completed[i].number_of_days = completed[j].number_of_days
    /\ request.state # "running" =>
         \A i, j \in 1..Len(StoredTrips) :
           ( /\ StoredTrips[i].distance = StoredTrips[j].distance
             /\ StoredTrips[i].distance # 0 ) =>
             get_number_of_days(StoredTrips[i]) = get_number_of_days(StoredTrips[j])

\* C14 witness: two requests were served, one with cycle_used 0 and one
\* with cycle_used 80 (above the 60- and 70-hour limits), and their two
\* trips were scheduled for the same distance, over more than two days.
SameDistanceOtherCycleUsed ==
    /\ request.state = "answered"
    /\ Len(completed) = 2
    /\ completed[1].distance = completed[2].distance
    /\ completed[1].number_of_days >= 3
    /\ {completed[1].cycle_used, completed[2].cycle_used} = {0, 80}
    /\ Len(StoredTrips) = 2
    /\ StoredTrips[1].cycle_used # StoredTrips[2].cycle_used
    /\ StoredTrips[1].distance = StoredTrips[2].distance
    /\ StoredTrips[1].distance > Miles(2000)

\* --------------------------------------------------------------- C15 ----
\* The request lacks a location or cycle_used, or its cycle_used is a
\* negative number.
MissingOrNegative(req) ==
    \/ req.pickup_location = "missing"
    \/ req.dropoff_location = "missing"
    \/ req.cycle_used.kind = "missing"
    \/ /\ req.cycle_used.kind \in {"int", "numeral"}
       /\ req.cycle_used.value < 0

NonNegativeCycleUsedAccepted ==
    ( /\ request.state = "answered"
      /\ request.pickup_location = "given"
      /\ request.dropoff_location = "given"
      /\ request.cycle_used.kind \in {"int", "numeral"}
      /\ request.cycle_used.value >= 0 ) =>
      /\ http_response.status # 400
      /\ Len(StoredTrips) = request.trips + 1
      /\ runs = request.runs + 1

\* --------------------------------------------------------------- C20 ----
\* A stored schedule that starts with the pre-trip instruction and ends
\* with a STOP.
CompleteSchedule(s) ==
    /\ Len(s) >= 3
    /\ s[1][1] = "ON_DUTY_NOT_DRIVING"
    /\ s[Len(s)][1] = "STOP"

\* C20: when a request is answered 500 because generate_route_instructions
\* raised, the Trip table holds no more rows than when the request was
\* received; and whenever no request is being served every stored Trip has
\* a complete schedule.
TripCreationAllOrNothing ==
    /\ ( /\ request.state = "answered"
         /\ http_response = [status |-> 500, cause |-> "generate"] ) =>
         Len(StoredTrips) = request.trips
    /\ request.state # "running" =>
         \A i \in 1..Len(StoredTrips) :
           CompleteSchedule(StoredTrips[i].route_instructions)

=============================================================================
